---- MODULE Spec2Model ----
(***************************************************************************)
(* A model of pong.ts: the game State folded by the scan of gameObserver   *)
(* over the merged stream of ticks and key actions, the physics functions  *)
(* it calls, and the start / game-over / restart subscriptions of runGame.  *)
(*                                                                         *)
(* Positions and velocities are whole pixels.  Math.random() is an input:  *)
(* genericDefaultBall draws it from the grid k/RandDen, and                 *)
(* calculateBallVel draws it among the values that give a whole pixel.      *)
(***************************************************************************)
EXTENDS Integers, Sequences, FiniteSets, TLC

(* ---------------- Constants (pong.ts, class Constants) ---------------- *)
winningScore == 7
topBound == 10
bottomBound == 10
sideBound == 10
paddleXWidth == 20
paddleYWidth == 90
ballRadius == 10
ballBaseXSpeed == 5
ballBaseYSpeed == 8
paddleSpeed == 5
cpuCheating == 2
startingEnergy == 4
paddleGrowthAbility == 30
paddleShrinkAbility == 15
canvasRight == 900
canvasBottom == 600

(* ---------------- Bounds of the model ---------------- *)
\* reducer steps explored in one game from its first state
MaxSteps == 4
\* Math.random() in genericDefaultBall is k/RandDen, k \in 0..RandDen-1
RandDen == 4
\* calculateBallVel: whole-pixel results, offsets 0..MaxBounce above the least one
MaxBounce == 1

null == "null"

VARIABLES
  acc,             \* the State held by scan (the last State handed to updateView)
  defaultBall,     \* the ball of defaultEverythingState, drawn once at load
  gameSubs,        \* number of live subscriptions to gameObserver
  spaceSubs,       \* number of live subscriptions to waitSpacebar
  ev,              \* the last event the host delivered
  branch,          \* the arm of the reducer that handled it ("none": no reducer step)
  steps,           \* reducer steps taken in the current game, from its first State here
  games,           \* calls of runGame so far
  canvas,          \* the elements of the svg canvas, one per id
  tickX            \* the ball's x after the latest tick (or goal reset, or game start)

vars == <<acc, defaultBall, gameSubs, spaceSubs, ev, branch, steps, games, canvas, tickX>>

(* ---------------- Actions (classes Movement .. Drain) ---------------- *)
Movement(y) == [type |-> "Movement", y |-> y, size |-> 0]
PaddleGrowth(size) == [type |-> "PaddleGrowth", y |-> 0, size |-> size]
Teleport == [type |-> "Teleport", y |-> 0, size |-> 0]
PaddleShrink(size) == [type |-> "PaddleShrink", y |-> 0, size |-> size]
Drain == [type |-> "Drain", y |-> 0, size |-> 0]
\* what interval(10) emits: a number, an instance of none of the classes
TickValue == [type |-> "Tick", y |-> 0, size |-> 0]

(* ---------------- Body generators ---------------- *)
genericPaddle(position, velocity, energy_, length) ==
  [yPos |-> position, yVel |-> velocity, ySize |-> length, energy |-> energy_]

playerPaddleX == sideBound + 20
aiPaddleX == canvasRight - paddleXWidth - 20 - sideBound

ball(xPos, yPos, xVel, yVel, score) ==
  [xPos |-> xPos, yPos |-> yPos, xVel |-> xVel, yVel |-> yVel, scoreUpdate |-> score]

\* num.toString(): the decimal digits of a natural number
RECURSIVE NumToString(_)
NumToString(n) ==
  IF n < 10 THEN <<n>> ELSE Append(NumToString(n \div 10), n % 10)

\* parseInt on a string of decimal digits
RECURSIVE ParseInt(_)
ParseInt(s) ==
  IF Len(s) = 0 THEN 0
  ELSE 10 * ParseInt(SubSeq(s, 1, Len(s) - 1)) + s[Len(s)]

\* a scoreboard TextBody: extra is "", so content is the digits of num
genericText(num) == [numeric |-> num, content |-> NumToString(num)]

\* a scoreboard that counts a goal twice
changeScoreTwice(curren) == genericText(curren.numeric + 2)

changeScore(curren) == genericText(curren.numeric + 1)

(* ---------------- Defaults ---------------- *)
halfway == topBound + (canvasBottom - bottomBound - topBound) \div 2

defaultPaddleY == halfway - (paddleYWidth \div 2)

createDefaultPaddleState == genericPaddle(defaultPaddleY, 0, startingEnergy, paddleYWidth)

\* Math.round of the rational num/den (den > 0): halves round up
MathRound(num, den) == (2 * num + den) \div (2 * den)

\* the y velocities genericDefaultBall can draw: r1 = k1/RandDen, r2 = k2/RandDen
DefaultYVelocities ==
  { IF 2 * k1 > RandDen
      THEN MathRound(ballBaseYSpeed * k2, 2 * RandDen)
      ELSE MathRound(-(ballBaseYSpeed * k2), 3 * RandDen)
    : k1 \in 0..(RandDen - 1), k2 \in 0..(RandDen - 1) }

genericDefaultBall(multiplierX, multiplierY) ==
  { ball(canvasRight \div 2, canvasBottom \div 2,
         multiplierX * ballBaseXSpeed, multiplierY * yVelocity, null)
    : yVelocity \in DefaultYVelocities }

\* the player-side default ball served to the other side
defaultBallState1TowardsCpu == genericDefaultBall(1, 1)

defaultBallState1 == genericDefaultBall(-1, 1)
defaultBallState2 == genericDefaultBall(1, 1)
\* an end-of-game ball that keeps its y velocity
defaultStillBallMoving == genericDefaultBall(0, 1)

defaultStillBall == genericDefaultBall(0, 0)

defaultEverythingState ==
  [paddleOne |-> createDefaultPaddleState,
   paddleTwo |-> createDefaultPaddleState,
   ball |-> defaultBall,
   scoreOne |-> genericText(0),
   scoreTwo |-> genericText(0),
   playerEnergy |-> startingEnergy,
   winnerIs |-> null]

(* ---------------- Movement handlers ---------------- *)
\* a paddle that is put on the wall it would cross and keeps its velocity
movingPaddleStateKeepsVelocity(paddle, vel) ==
  LET top == topBound
      bottom == canvasBottom - bottomBound - paddle.ySize
      newYPos == paddle.yPos + vel
  IN  IF newYPos < top THEN genericPaddle(top, vel, paddle.energy, paddle.ySize)
      ELSE IF newYPos > bottom THEN genericPaddle(bottom, vel, paddle.energy, paddle.ySize)
      ELSE genericPaddle(newYPos, vel, paddle.energy, paddle.ySize)

movingPaddleState(paddle, vel) ==
  LET top == topBound
      bottomWall == canvasBottom - bottomBound
      yPosition == paddle.yPos
      bottom == bottomWall - paddle.ySize
      newYPos == yPosition + vel
  IN  IF \/ (yPosition > top /\ yPosition < bottom)
         \/ (yPosition <= top /\ vel >= 0)
         \/ (yPosition >= bottom /\ vel <= 0)
        THEN IF newYPos < top /\ vel < 0
               THEN genericPaddle(top, 0, paddle.energy, paddle.ySize)
             ELSE IF newYPos > bottom /\ vel > 0
               THEN genericPaddle(bottom, 0, paddle.energy, paddle.ySize)
             ELSE genericPaddle(yPosition + vel, vel, paddle.energy, paddle.ySize)
        ELSE genericPaddle(yPosition, 0, paddle.energy, paddle.ySize)

\* a teleport that lands one ball step ahead and a growth that is centred
makePaddleStateAhead(prev, paddle, b) ==
  IF paddle.type = "Movement"
    THEN movingPaddleState(prev, paddle.y)
  ELSE IF paddle.type = "PaddleGrowth" /\ prev.energy > 0
    THEN genericPaddle(prev.yPos - paddle.size \div 2, prev.yVel, prev.energy - 1,
                       paddle.size + prev.ySize)
  ELSE IF paddle.type = "Teleport" /\ prev.energy > 0
    THEN genericPaddle(b.yPos + b.yVel, b.yVel, prev.energy - 1, prev.ySize)
  ELSE IF paddle.type = "Drain" /\ prev.energy > 0
    THEN genericPaddle(prev.yPos, prev.yVel, prev.energy - 1, prev.ySize)
  ELSE IF paddle.type = "PaddleShrink"
    THEN genericPaddle(prev.yPos, prev.yVel, prev.energy, prev.ySize - paddle.size)
  ELSE movingPaddleState(prev, prev.yVel)

\* a makePaddleState whose fall-through case (a tick) stops the paddle
makePaddleStateTickStops(prev, paddle, b) ==
  IF paddle.type = "Movement"
    THEN movingPaddleState(prev, paddle.y)
  ELSE IF paddle.type = "PaddleGrowth" /\ prev.energy > 0
    THEN genericPaddle(prev.yPos, prev.yVel, prev.energy - 1, paddle.size + prev.ySize)
  ELSE IF paddle.type = "Teleport" /\ prev.energy > 0
    THEN genericPaddle(b.yPos, b.yVel, prev.energy - 1, prev.ySize)
  ELSE IF paddle.type = "Drain" /\ prev.energy > 0
    THEN genericPaddle(prev.yPos, prev.yVel, prev.energy - 1, prev.ySize)
  ELSE IF paddle.type = "PaddleShrink"
    THEN genericPaddle(prev.yPos, prev.yVel, prev.energy, prev.ySize - paddle.size)
  ELSE movingPaddleState(prev, 0)

makePaddleState(prev, paddle, b) ==
  IF paddle.type = "Movement"
    THEN movingPaddleState(prev, paddle.y)
  ELSE IF paddle.type = "PaddleGrowth" /\ prev.energy > 0
    THEN genericPaddle(prev.yPos, prev.yVel, prev.energy - 1, paddle.size + prev.ySize)
  ELSE IF paddle.type = "Teleport" /\ prev.energy > 0
    THEN genericPaddle(b.yPos, b.yVel, prev.energy - 1, prev.ySize)
  ELSE IF paddle.type = "Drain" /\ prev.energy > 0
    THEN genericPaddle(prev.yPos, prev.yVel, prev.energy - 1, prev.ySize)
  ELSE IF paddle.type = "PaddleShrink"
    THEN genericPaddle(prev.yPos, prev.yVel, prev.energy, prev.ySize - paddle.size)
  ELSE movingPaddleState(prev, prev.yVel)

\* an AI that compares the paddle's top with the ball's y
followBallFromTop(paddle, b) ==
  LET speed == paddleSpeed + cpuCheating
  IN  IF paddle.yPos < b.yPos THEN Movement(speed)
      ELSE IF paddle.yPos > b.yPos THEN Movement(-1 * speed)
      ELSE Movement(0)

\* paddleLoc = yPos + ySize/2 is compared with the ball's y; doubled to stay integral
followBall(paddle, b) ==
  LET speed == paddleSpeed + cpuCheating
      paddleLoc2 == 2 * paddle.yPos + paddle.ySize
      ballLoc2 == 2 * b.yPos
  IN  IF paddleLoc2 < ballLoc2 THEN Movement(speed)
      ELSE IF paddleLoc2 > ballLoc2 THEN Movement(-1 * speed)
      ELSE Movement(0)

Abs(x) == IF x < 0 THEN -x ELSE x

\* a bounce velocity computed from the signed distance to the paddle's centre
calculateBallVelSigned(ymin, ymax, impactZone) ==
  LET distVector2 == 2 * impactZone - (ymax + ymin)
      least == (distVector2 + 16) \div 16
  IN  { v \in (least - 1)..(least + MaxBounce) :
          distVector2 <= 16 * v /\ 16 * v < distVector2 + 16 * ballBaseYSpeed }

\* speed*Math.random() + distance/8 with distance = |impactZone - (ymax+ymin)/2|:
\* the whole-pixel values v with distance/8 <= v < distance/8 + speed, the first
\* MaxBounce + 1 of them
calculateBallVel(ymin, ymax, impactZone) ==
  LET distance2 == Abs(2 * impactZone - (ymax + ymin))
      least == (distance2 + 15) \div 16
  IN  { v \in least..(least + MaxBounce) :
          distance2 <= 16 * v /\ 16 * v < distance2 + 16 * ballBaseYSpeed }

\* a ball step that tests roof and floor before the side walls, without paddles
movingBallStateRoofFirst(b, player, cpu) ==
  IF \/ (b.yPos - ballRadius <= topBound /\ b.yVel < 0)
     \/ (b.yPos + ballRadius >= canvasBottom - bottomBound /\ b.yVel > 0)
    THEN {ball(b.xPos + b.xVel, b.yPos - b.yVel, b.xVel, -1 * b.yVel, null)}
  ELSE IF b.xPos - ballRadius <= sideBound
    THEN {ball(b.xPos, b.yPos, 0, 0, "c")}
  ELSE IF b.xPos + ballRadius >= canvasRight - sideBound
    THEN {ball(b.xPos, b.yPos, 0, 0, "p")}
  ELSE {ball(b.xPos + b.xVel, b.yPos + b.yVel, b.xVel, b.yVel, null)}

\* a ball step whose roof and floor rule backs the ball off in both directions,
\* without paddles
movingBallStateBackOff(b, player, cpu) ==
  IF b.xPos - ballRadius <= sideBound
    THEN {ball(b.xPos, b.yPos, 0, 0, "c")}
  ELSE IF b.xPos + ballRadius >= canvasRight - sideBound
    THEN {ball(b.xPos, b.yPos, 0, 0, "p")}
  ELSE IF \/ (b.yPos - ballRadius <= topBound /\ b.yVel < 0)
          \/ (b.yPos + ballRadius >= canvasBottom - bottomBound /\ b.yVel > 0)
    THEN {ball(b.xPos - b.xVel, b.yPos - b.yVel, b.xVel, -1 * b.yVel, null)}
  ELSE {ball(b.xPos + b.xVel, b.yPos + b.yVel, b.xVel, b.yVel, null)}

\* a ball step whose player-paddle rule tests no horizontal edge, only
\* canvasRight > xPos and the direction; without the AI paddle
movingBallStateNoPlayerEdge(b, player, cpu) ==
  IF b.xPos - ballRadius <= sideBound
    THEN {ball(b.xPos, b.yPos, 0, 0, "c")}
  ELSE IF b.xPos + ballRadius >= canvasRight - sideBound
    THEN {ball(b.xPos, b.yPos, 0, 0, "p")}
  ELSE IF \/ (b.yPos - ballRadius <= topBound /\ b.yVel < 0)
          \/ (b.yPos + ballRadius >= canvasBottom - bottomBound /\ b.yVel > 0)
    THEN {ball(b.xPos + b.xVel, b.yPos - b.yVel, b.xVel, -1 * b.yVel, null)}
  ELSE IF /\ \/ (player.yPos <= b.yPos - ballRadius
                   /\ b.yPos - ballRadius <= player.yPos + player.ySize)
             \/ (player.yPos <= b.yPos + ballRadius
                   /\ b.yPos + ballRadius <= player.yPos + player.ySize)
          /\ canvasRight > b.xPos
          /\ b.xVel < 0
    THEN { ball(b.xPos - b.xVel, b.yPos + dy, -1 * b.xVel, vy, null)
           : dy \in calculateBallVel(player.yPos, player.yPos + player.ySize, b.yPos),
             vy \in calculateBallVel(player.yPos, player.yPos + player.ySize, b.yPos) }
  ELSE {ball(b.xPos + b.xVel, b.yPos + b.yVel, b.xVel, b.yVel, null)}

movingBallState(b, player, cpu) ==
  LET playerXleft == playerPaddleX
      playerYtop == player.yPos
      playerXright == playerXleft + paddleXWidth
      playerYbottom == playerYtop + player.ySize
      cpuXleft == aiPaddleX
      cpuYtop == cpu.yPos
      cpuXright == cpuXleft + paddleXWidth
      cpuYbottom == cpuYtop + cpu.ySize
      yPos == b.yPos
      xPos == b.xPos
      xLo == b.xPos - ballRadius
      xHi == b.xPos + ballRadius
      yLo == b.yPos - ballRadius
      yHi == b.yPos + ballRadius
  IN  IF xLo <= sideBound
        THEN {ball(xPos, yPos, 0, 0, "c")}
      ELSE IF xHi >= canvasRight - sideBound
        THEN {ball(xPos, yPos, 0, 0, "p")}
      ELSE IF \/ (yLo <= topBound /\ b.yVel < 0)
              \/ (yHi >= canvasBottom - bottomBound /\ b.yVel > 0)
        THEN {ball(xPos + b.xVel, yPos - b.yVel, b.xVel, -1 * b.yVel, null)}
      ELSE IF /\ playerXleft <= xLo /\ xLo <= playerXright
              /\ \/ (playerYtop <= yLo /\ yLo <= playerYbottom)
                 \/ (playerYtop <= yHi /\ yHi <= playerYbottom)
              /\ canvasRight > xPos
              /\ b.xVel < 0
        THEN { ball(xPos - b.xVel, yPos + dy, -1 * b.xVel, vy, null)
               : dy \in calculateBallVel(playerYtop, playerYbottom, yPos),
                 vy \in calculateBallVel(playerYtop, playerYbottom, yPos) }
      ELSE IF /\ cpuXleft <= xHi /\ xHi <= cpuXright
              /\ \/ (cpuYtop <= yLo /\ yLo <= cpuYbottom)
                 \/ (cpuYtop <= yHi /\ yHi <= cpuYbottom)
              /\ canvasRight < 2 * xPos
              /\ b.xVel > 0
        THEN { ball(xPos - b.xVel, yPos + dy, -1 * b.xVel, vy, null)
               : dy \in calculateBallVel(cpuYtop, cpuYbottom, yPos),
                 vy \in calculateBallVel(cpuYtop, cpuYbottom, yPos) }
      ELSE {ball(xPos + b.xVel, yPos + b.yVel, b.xVel, b.yVel, null)}

createState(player, cpu, b, sc1, sc2, energy, winner) ==
  [paddleOne |-> player, paddleTwo |-> cpu, ball |-> b,
   scoreOne |-> sc1, scoreTwo |-> sc2, playerEnergy |-> energy, winnerIs |-> winner]

(* ---------------- The reducer of gameObserver ---------------- *)
createEndState(a, whoWon) ==
  { createState(
      genericPaddle(defaultPaddleY, 0, a.playerEnergy, paddleYWidth),
      genericPaddle(defaultPaddleY, 0, a.paddleTwo.energy, paddleYWidth),
      b, a.scoreOne, a.scoreTwo, a.playerEnergy, whoWon)
    : b \in defaultStillBall }

createStandardParseState(a, s, energyDrain) ==
  { createState(
      makePaddleState(a.paddleOne, s, a.ball),
      makePaddleState(a.paddleTwo, followBall(a.paddleTwo, a.ball), a.ball),
      b, a.scoreOne, a.scoreTwo, a.playerEnergy - energyDrain, null)
    : b \in movingBallState(a.ball, a.paddleOne, a.paddleTwo) }

\* a gate that lets an ability through at energy 0
energyAvailableAtZero(a) == a.playerEnergy >= 0

\* the gate of the first and second arms: acc.playerEnergy.numeric > 0
energyAvailable(a) == a.playerEnergy > 0

\* a chain that looks at the ball's marker before the abilities
branchOfMarkersFirst(a, s) ==
  IF a.ball.scoreUpdate = "p" THEN "playerScored"
  ELSE IF a.ball.scoreUpdate = "c" THEN "cpuScored"
  ELSE IF s.type \in {"PaddleGrowth", "Teleport"} /\ energyAvailable(a) THEN "ability"
  ELSE IF s.type = "PaddleShrink"
    THEN (IF energyAvailable(a) THEN "shrink" ELSE "shrinkNoEnergy")
  ELSE IF ParseInt(a.scoreOne.content) = winningScore THEN "playerWon"
  ELSE IF ParseInt(a.scoreTwo.content) = winningScore THEN "cpuWon"
  ELSE "standard"

\* a chain that tests the scores before the ball's marker
branchOfWinFirst(a, s) ==
  IF s.type \in {"PaddleGrowth", "Teleport"} /\ energyAvailable(a) THEN "ability"
  ELSE IF s.type = "PaddleShrink"
    THEN (IF energyAvailable(a) THEN "shrink" ELSE "shrinkNoEnergy")
  ELSE IF ParseInt(a.scoreOne.content) = winningScore THEN "playerWon"
  ELSE IF ParseInt(a.scoreTwo.content) = winningScore THEN "cpuWon"
  ELSE IF a.ball.scoreUpdate = "p" THEN "playerScored"
  ELSE IF a.ball.scoreUpdate = "c" THEN "cpuScored"
  ELSE "standard"

\* the arm of the conditional chain of the scan callback that handles s in State a
branchOf(a, s) ==
  IF s.type \in {"PaddleGrowth", "Teleport"} /\ energyAvailable(a) THEN "ability"
  ELSE IF s.type = "PaddleShrink"
    THEN (IF energyAvailable(a) THEN "shrink" ELSE "shrinkNoEnergy")
  ELSE IF a.ball.scoreUpdate = "p" THEN "playerScored"
  ELSE IF a.ball.scoreUpdate = "c" THEN "cpuScored"
  ELSE IF ParseInt(a.scoreOne.content) = winningScore THEN "playerWon"
  ELSE IF ParseInt(a.scoreTwo.content) = winningScore THEN "cpuWon"
  ELSE "standard"

\* a player-scored reset that uses the default paddles, energy included
playerScoredStateDefaultPaddles(a) ==
  { createState(createDefaultPaddleState, createDefaultPaddleState,
                b, changeScore(a.scoreOne), a.scoreTwo, a.playerEnergy, null)
    : b \in defaultBallState1 }

\* a player-scored reset that hands the player 1 energy as the cpu-scored one does
playerScoredStateGivesEnergy(a) ==
  { createState(
      genericPaddle(defaultPaddleY, 0, a.playerEnergy + 1, paddleYWidth),
      genericPaddle(defaultPaddleY, 0, a.paddleTwo.energy, paddleYWidth),
      b, changeScore(a.scoreOne), a.scoreTwo, a.playerEnergy + 1, null)
    : b \in defaultBallState1 }

playerScoredState(a) ==
  { createState(
      genericPaddle(defaultPaddleY, 0, a.playerEnergy, paddleYWidth),
      genericPaddle(defaultPaddleY, 0, a.paddleTwo.energy, paddleYWidth),
      b, changeScore(a.scoreOne), a.scoreTwo, a.playerEnergy, null)
    : b \in defaultBallState1 }

\* a cpu-scored reset that maintains the player's energy
cpuScoredStateKeepsEnergy(a) ==
  { createState(
      genericPaddle(defaultPaddleY, 0, a.playerEnergy, paddleYWidth),
      genericPaddle(defaultPaddleY, 0, a.paddleTwo.energy, paddleYWidth),
      b, a.scoreOne, changeScore(a.scoreTwo), a.playerEnergy, null)
    : b \in defaultBallState2 }

\* a cpu-scored reset that adds the consolation energy to the display only
cpuScoredStateDisplayOnly(a) ==
  { createState(
      genericPaddle(defaultPaddleY, 0, a.paddleOne.energy, paddleYWidth),
      genericPaddle(defaultPaddleY, 0, a.paddleTwo.energy, paddleYWidth),
      b, a.scoreOne, changeScore(a.scoreTwo), a.playerEnergy + 1, null)
    : b \in defaultBallState2 }

cpuScoredState(a) ==
  { createState(
      genericPaddle(defaultPaddleY, 0, a.playerEnergy + 1, paddleYWidth),
      genericPaddle(defaultPaddleY, 0, a.paddleTwo.energy, paddleYWidth),
      b, a.scoreOne, changeScore(a.scoreTwo), a.playerEnergy + 1, null)
    : b \in defaultBallState2 }

\* a shrink that takes the height from the player's own paddle
shrinkStateOwnPaddle(a, s) ==
  { createState(
      makePaddleState(makePaddleState(a.paddleOne, Drain, a.ball), s, a.ball),
      a.paddleTwo,
      b, a.scoreOne, a.scoreTwo, a.playerEnergy - 1, null)
    : b \in movingBallState(a.ball, a.paddleOne, a.paddleTwo) }

\* a shrink that leaves the ball where it is
shrinkStateStillBall(a, s) ==
  { createState(
      makePaddleState(a.paddleOne, Drain, a.ball),
      makePaddleState(a.paddleTwo, s, a.ball),
      a.ball, a.scoreOne, a.scoreTwo, a.playerEnergy - 1, null) }

shrinkState(a, s) ==
  { createState(
      makePaddleState(a.paddleOne, Drain, a.ball),
      makePaddleState(a.paddleTwo, s, a.ball),
      b, a.scoreOne, a.scoreTwo, a.playerEnergy - 1, null)
    : b \in movingBallState(a.ball, a.paddleOne, a.paddleTwo) }

\* the States the scan callback can return for State a and event s
gameObserver(a, s) ==
  LET arm == branchOf(a, s)
  IN  CASE arm = "ability" -> createStandardParseState(a, s, 1)
        [] arm = "shrink" -> shrinkState(a, s)
        [] arm = "shrinkNoEnergy" -> createStandardParseState(a, Movement(0), 0)
        [] arm = "playerScored" -> playerScoredState(a)
        [] arm = "cpuScored" -> cpuScoredState(a)
        [] arm = "playerWon" -> createEndState(a, "p")
        [] arm = "cpuWon" -> createEndState(a, "c")
        [] OTHER -> createStandardParseState(a, s, 0)

(* ---------------- Key handlers ---------------- *)
MoveKeys == {"KeyW", "KeyS"}
AbilityKeys == {"KeyE", "KeyR", "KeyQ"}
\* keys of key-down events: the five bound keys, Space, and a key bound to nothing
Keys == MoveKeys \cup AbilityKeys \cup {"Space", "KeyX"}
\* keys of key-up events: a bound key and a key bound to nothing
KeyUpKeys == {"KeyW", "KeyX"}

\* a mapper with the two movement keys exchanged
keyCheckExchanged(k) ==
  CASE k = "KeyW" -> Movement(1 * paddleSpeed)
    [] k = "KeyS" -> Movement(-1 * paddleSpeed)
    [] k = "KeyE" -> PaddleGrowth(paddleGrowthAbility)
    [] k = "KeyQ" -> PaddleShrink(paddleShrinkAbility)
    [] k = "KeyR" -> Teleport

\* keyUpArrow, keyDownArrow, keyE, keyR, keyQ: the action of a key-down on a bound key
keyCheck(k) ==
  CASE k = "KeyW" -> Movement(-1 * paddleSpeed)
    [] k = "KeyS" -> Movement(1 * paddleSpeed)
    [] k = "KeyE" -> PaddleGrowth(paddleGrowthAbility)
    [] k = "KeyQ" -> PaddleShrink(paddleShrinkAbility)
    [] k = "KeyR" -> Teleport

\* keyRelease: every key-up is a Movement(0, 0)
keyRelease(k) == Movement(0)

(* ---------------- The svg canvas ---------------- *)
uiColour == "rgb(230,230,230)"

rageColourProgression ==
  << uiColour, uiColour, uiColour,
     "rgb(240,220,220)", "rgb(255,210,210)", "rgb(255,190,190)",
     "rgb(255,150,150)", "rgb(255,120,120)", "rgb(255,100,100)",
     "rgb(255, 50, 50)", "rgb(255, 20, 20)", "rgb(255,  0,  0)" >>

\* rageColourProgression[level], the last colour from its length on (indices from 0);
\* an index below 0 reads undefined, which setAttribute writes as "undefined"
getRageColour(level) ==
  IF level >= Len(rageColourProgression)
    THEN rageColourProgression[Len(rageColourProgression)]
  ELSE IF level < 0 THEN "undefined"
  ELSE rageColourProgression[level + 1]

\* an element of the canvas with the attributes the draw functions set: w and h are
\* width and height of a rect, r and r of a circle, font-size and 0 of a text; a text's
\* textContent is extra followed by digits
Element(id, x, y, w, h, fill, extra, digits) ==
  [id |-> id, x |-> x, y |-> y, w |-> w, h |-> h, fill |-> fill,
   extra |-> extra, digits |-> digits]

\* document.getElementById(b.id) || create(), then changeAttributes: the element of
\* that id, created if there was none, carries the attributes of e
draw(c, e) == {x \in c : x.id # e.id} \cup {e}

\* svg.removeChild(document.getElementById(id))
removeChild(c, id) == {x \in c : x.id # id}

drawRectangle(c, id, xPos, b, colour) ==
  draw(c, Element(id, xPos, b.yPos, paddleXWidth, b.ySize, colour, "", <<>>))

drawCircle(c, b) ==
  draw(c, Element("ball", b.xPos, b.yPos, ballRadius, ballRadius, uiColour, "", <<>>))

drawText(c, id, xPos, yPos, size, colour, extra, digits) ==
  draw(c, Element(id, xPos, yPos, size, 0, colour, extra, digits))

\* drawWalls: the four walls, drawn once at load
drawStaticObjects ==
  { Element("WallL", 0, 0, sideBound, canvasBottom, uiColour, "", <<>>),
    Element("WallR", canvasRight - sideBound, 0, sideBound, canvasBottom, uiColour, "", <<>>),
    Element("WallT", 0, 0, canvasRight, topBound, uiColour, "", <<>>),
    Element("WallB", 0, canvasBottom - bottomBound, canvasRight, bottomBound, uiColour,
            "", <<>>) }

\* the prompt drawn by waitToStart
startGamePrompt(c) ==
  drawText(c, "startGamePrompt", canvasRight \div 4, canvasBottom \div 2, 32, uiColour,
           "Press Spacebar to begin...", <<>>)

\* the six draws of updateView
drawState(c, s) ==
  LET c1 == drawRectangle(c, "PaddlePlayer", playerPaddleX, s.paddleOne,
                          getRageColour(s.paddleOne.energy))
      c2 == drawRectangle(c1, "PaddleAI", aiPaddleX, s.paddleTwo, uiColour)
      c3 == drawCircle(c2, s.ball)
      c4 == drawText(c3, "ScorePlayer", canvasRight \div 4, topBound + 64, 64, uiColour,
                     "", s.scoreOne.content)
      c5 == drawText(c4, "ScoreAI", (canvasRight * 3) \div 4 - 64, topBound + 64, 64,
                     uiColour, "", s.scoreTwo.content)
  IN  drawText(c5, "playerEnergy", canvasRight \div 4, canvasBottom - bottomBound - 32, 32,
               getRageColour(s.playerEnergy), "Rage: ", NumToString(s.playerEnergy))

\* the message gameOver draws for the winner
gameOverMessage(c, winner) ==
  IF winner = "p"
    THEN drawText(c, "victory", canvasRight \div 4, canvasBottom \div 2, 84,
                  "RGB(100,255,100)", "You Win :)", <<>>)
  ELSE IF winner = "c"
    THEN drawText(c, "defeat", canvasRight \div 4, canvasBottom \div 2, 84,
                  "RGB(255,100,100)", "You Lose :(", <<>>)
  ELSE c

(* ---------------- runGame: subscriptions and the view ---------------- *)
Event(kind, key) == [kind |-> kind, key |-> key]

\* a gameOver that subscribes the restart handler and leaves the game subscribed
updateViewKeepsGame(s) ==
  IF s.winnerIs # null
    THEN /\ canvas' = gameOverMessage(drawState(canvas, s), s.winnerIs)
         /\ gameSubs' = gameSubs
         /\ spaceSubs' = spaceSubs + 1
    ELSE /\ canvas' = drawState(canvas, s)
         /\ UNCHANGED <<gameSubs, spaceSubs>>

\* updateView(s): draws s; a State with a winner calls gameOver, which draws the
\* message, ends the game subscription (game.unsubscribe() on an ended subscription
\* does nothing) and subscribes a restart handler to waitSpacebar
updateView(s) ==
  IF s.winnerIs # null
    THEN /\ canvas' = gameOverMessage(drawState(canvas, s), s.winnerIs)
         /\ gameSubs' = (IF gameSubs > 0 THEN gameSubs - 1 ELSE gameSubs)
         /\ spaceSubs' = spaceSubs + 1
    ELSE /\ canvas' = drawState(canvas, s)
         /\ UNCHANGED <<gameSubs, spaceSubs>>

\* one emission of gameObserver: scan folds s onto acc, the subscriber views the result
Reduce(s) ==
  /\ gameSubs > 0
  /\ steps < MaxSteps
  /\ \E n \in gameObserver(acc, s) : acc' = n /\ updateView(n)
  /\ branch' = branchOf(acc, s)
  /\ steps' = steps + 1
  /\ tickX' = (IF s.type = "Tick"
                     \/ branchOf(acc, s) \in {"playerScored", "cpuScored", "playerWon", "cpuWon"}
                  THEN acc'.ball.xPos ELSE tickX)
  /\ UNCHANGED <<defaultBall, games>>

\* the element the bound Space handler removes: the start prompt of waitToStart, or
\* the message of the gameOver that bound it
shownMessage ==
  IF games = 0 THEN "startGamePrompt"
  ELSE IF acc.winnerIs = "p" THEN "victory"
  ELSE IF acc.winnerIs = "c" THEN "defeat"
  ELSE "none"

\* a Space handler that starts the game and stays subscribed
SpaceHandlerStaysSubscribed ==
  /\ spaceSubs > 0
  /\ spaceSubs' = spaceSubs
  /\ gameSubs' = gameSubs + 1
  /\ acc' = defaultEverythingState
  /\ steps' = 0
  /\ branch' = "none"
  /\ games' = games + 1
  /\ canvas' = drawState(removeChild(canvas, shownMessage), defaultEverythingState)
  /\ tickX' = defaultEverythingState.ball.xPos
  /\ UNCHANGED defaultBall

\* a restart that seeds the scan with the finished game's State, winner cleared
SpaceHandlerKeepsState ==
  /\ spaceSubs > 0
  /\ spaceSubs' = spaceSubs - 1
  /\ gameSubs' = gameSubs + 1
  /\ acc' = [acc EXCEPT !.winnerIs = null]
  /\ steps' = 0
  /\ branch' = "none"
  /\ games' = games + 1
  /\ canvas' = drawState(removeChild(canvas, shownMessage), defaultEverythingState)
  /\ tickX' = defaultEverythingState.ball.xPos
  /\ UNCHANGED defaultBall

\* a Space handler that is also heard while a game runs, and then resets its State
SpaceHandlerHeardInGame ==
  /\ spaceSubs > 0 \/ gameSubs > 0
  /\ spaceSubs' = 0
  /\ gameSubs' = 1
  /\ acc' = defaultEverythingState
  /\ steps' = (IF spaceSubs > 0 THEN 0 ELSE steps)
  /\ branch' = "none"
  /\ games' = (IF spaceSubs > 0 THEN games + 1 ELSE games)
  /\ canvas' = drawState(removeChild(canvas, shownMessage), defaultEverythingState)
  /\ tickX' = defaultEverythingState.ball.xPos
  /\ UNCHANGED defaultBall

\* the handler of waitToStart and of gameOver: unsubscribe, then runGame, which
\* views defaultEverythingState and subscribes to a scan seeded with it
SpaceHandler ==
  /\ spaceSubs > 0
  /\ spaceSubs' = spaceSubs - 1
  /\ gameSubs' = gameSubs + 1
  /\ acc' = defaultEverythingState
  /\ steps' = 0
  /\ branch' = "none"
  /\ games' = games + 1
  /\ canvas' = drawState(removeChild(canvas, shownMessage), defaultEverythingState)
  /\ tickX' = defaultEverythingState.ball.xPos
  /\ UNCHANGED defaultBall

Ignored ==
  /\ branch' = "none"
  /\ UNCHANGED <<acc, defaultBall, gameSubs, spaceSubs, steps, games, canvas, tickX>>

(* ---------------- Events delivered by the host ---------------- *)
Tick ==
  /\ Reduce(TickValue)
  /\ ev' = Event("tick", "none")

KeyDownBound(k) ==
  /\ k \in MoveKeys \cup AbilityKeys
  /\ Reduce(keyCheck(k))
  /\ ev' = Event("keydown", k)

KeyDownSpace ==
  /\ SpaceHandler
  /\ ev' = Event("keydown", "Space")

KeyDownUnheard(k) ==
  /\ ~(k \in MoveKeys \cup AbilityKeys /\ gameSubs > 0)
  /\ ~(k = "Space" /\ spaceSubs > 0)
  /\ Ignored
  /\ ev' = Event("keydown", k)

KeyUpHeard(k) ==
  /\ Reduce(keyRelease(k))
  /\ ev' = Event("keyup", k)

\* a key-up stream that lets only the five bound keys through
KeyUpUnheardFiltered(k) ==
  /\ gameSubs = 0 \/ k \notin MoveKeys \cup AbilityKeys
  /\ Ignored
  /\ ev' = Event("keyup", k)

KeyUpUnheard(k) ==
  /\ gameSubs = 0
  /\ Ignored
  /\ ev' = Event("keyup", k)

(* ---------------- Specification ---------------- *)
\* the program as loaded: the walls drawn, waitToStart listening for Space
Loaded ==
  /\ defaultBall \in defaultBallState2
  /\ acc = defaultEverythingState
  /\ gameSubs = 0
  /\ spaceSubs = 1
  /\ steps = 0
  /\ games = 0
  /\ canvas = startGamePrompt(drawStaticObjects)
  /\ tickX = acc.ball.xPos
  /\ ev = Event("load", "none")
  /\ branch = "none"

\* States of a running game, each reached from defaultEverythingState by replaying
\* the reducer on a concrete sequence of ticks and key events (the number of
\* events is given with each); they let the exploration start late in a rally
\*   d: y velocity of the default ball; k: the key of the last event ("none": a tick)
MidGame(d, k, player, cpu, b, sc1, sc2, energy) ==
  [defaultBall |-> ball(canvasRight \div 2, canvasBottom \div 2, ballBaseXSpeed, d, null),
   ev |-> IF k = "none" THEN Event("tick", "none") ELSE Event("keydown", k),
   acc |-> createState(player, cpu, b, genericText(sc1), genericText(sc2), energy, null)]

MidGameStates ==
  { \* 878 events: the ball has passed the idle player, one step from the left wall
    MidGame(1, "none", genericPaddle(255, 0, 4, 90), genericPaddle(171, -7, 4, 90),
            ball(20, 88, -5, -10, null), 0, 0, 4),
    \* 242 events: the same with all energy spent (Grow, Teleport, Shrink, Shrink)
    MidGame(1, "none", genericPaddle(470, 0, 0, 120), genericPaddle(360, 7, 4, 60),
            ball(20, 392, -5, 7, null), 0, 0, 0),
    \* 3266 events: the cpu has scored six times and is about to score again
    MidGame(1, "none", genericPaddle(255, 0, 10, 90), genericPaddle(164, -7, 4, 90),
            ball(20, 208, -5, -3, null), 0, 6, 10),
    \* 1022 events: a fast ball has passed the AI paddle, one step from the right wall
    MidGame(1, "none", genericPaddle(400, 5, 4, 90), genericPaddle(465, 7, 4, 90),
            ball(880, 578, 5, 8, null), 0, 0, 4),
    \* 4376 events: the player has scored six times and is about to score again
    MidGame(1, "none", genericPaddle(120, -5, 4, 90), genericPaddle(94, -7, 4, 90),
            ball(880, 132, 5, 12, null), 6, 0, 4),
    \* 48 events: S held from the start, the player paddle one step above the floor
    MidGame(1, "none", genericPaddle(495, 5, 4, 90), genericPaddle(304, 7, 4, 90),
            ball(690, 348, 5, 1, null), 0, 0, 4),
    \* 70 events: ticks only, the ball low in the field
    MidGame(3, "none", genericPaddle(255, 0, 4, 90), genericPaddle(458, -7, 4, 90),
            ball(800, 510, 5, 3, null), 0, 0, 4),
    \* 233 events: the ball one step from the player's paddle, which rests on the floor
    MidGame(1, "KeyS", genericPaddle(500, 0, 4, 90), genericPaddle(493, 7, 4, 90),
            ball(65, 539, -5, 1, null), 0, 0, 4),
    \* 78 events: ticks only, the first ball of the game has reached the AI paddle
    MidGame(1, "none", genericPaddle(255, 0, 4, 90), genericPaddle(332, 7, 4, 90),
            ball(840, 378, 5, 1, null), 0, 0, 4),
    \* 809 events: the idle player conceded three goals, then five Shrinks; the
    \* ball is one step from an AI paddle lower than the ball's diameter
    MidGame(1, "none", genericPaddle(255, 0, 2, 90), genericPaddle(143, 7, 4, 15),
            ball(835, 146, 5, -2, null), 0, 3, 2),
    \* 1882 events: ticks until the cpu's seventh goal was counted, from then on
    \* key-downs of Q only (and the tick that counted a goal of the player); the
    \* ball has passed the idle player, one step from the left wall
    MidGame(1, "KeyQ", genericPaddle(255, 0, 0, 90), genericPaddle(80, -7, 4, 90),
            ball(20, 128, -5, -2, null), 1, 7, 0) }

Running ==
  \E m \in MidGameStates :
    /\ defaultBall = m.defaultBall
    /\ acc = m.acc
    /\ ev = m.ev
    /\ gameSubs = 1
    /\ spaceSubs = 0
    /\ steps = 0
    /\ games = 1
    /\ canvas = drawState(drawStaticObjects, m.acc)
    /\ tickX = m.acc.ball.xPos
    /\ branch = "standard"

Init == Loaded \/ Running

Next ==
  \/ Tick
  \/ \E k \in Keys : KeyDownBound(k)
  \/ KeyDownSpace
  \/ \E k \in Keys : KeyDownUnheard(k)
  \/ \E k \in KeyUpKeys : KeyUpHeard(k)
  \/ \E k \in KeyUpKeys : KeyUpUnheard(k)

Spec == Init /\ [][Next]_vars

(* ---------------- updateView applied to a State more than once ---------------- *)
\* invocations of updateView on one State
MaxViews == 2

\* States of a game in play, with no winner
PlayStates ==
  { createState(genericPaddle(y, 0, energy, h), genericPaddle(y, 0, startingEnergy, paddleYWidth),
                ball(x, canvasBottom \div 2, ballBaseXSpeed, 1, null),
                genericText(sc1), genericText(sc2), energy, null)
    : y \in {topBound, defaultPaddleY}, h \in {paddleYWidth, paddleYWidth + paddleGrowthAbility},
      x \in {canvasRight \div 2, canvasRight - sideBound - ballRadius},
      energy \in {0, startingEnergy},
      sc1 \in {0, winningScore}, sc2 \in {0, winningScore} }

\* the States the win arm makes of them
EndStates ==
  UNION { IF ParseInt(a.scoreOne.content) = winningScore THEN createEndState(a, "p")
          ELSE IF ParseInt(a.scoreTwo.content) = winningScore THEN createEndState(a, "c")
          ELSE {}
          : a \in PlayStates }

\* a game is subscribed and the canvas holds the walls, or the walls and the elements
\* drawn for the State at the start of the game
ViewInit ==
  /\ defaultBall = ball(canvasRight \div 2, canvasBottom \div 2, ballBaseXSpeed, 0, null)
  /\ acc \in PlayStates \cup EndStates
  /\ canvas \in {drawStaticObjects, drawState(drawStaticObjects, defaultEverythingState)}
  /\ tickX = acc.ball.xPos
  /\ gameSubs = 1
  /\ spaceSubs = 0
  /\ steps = 0
  /\ games = 1
  /\ ev = Event("view", "none")
  /\ branch = "none"

\* one invocation of updateView with the State acc; steps counts the invocations
Render ==
  /\ steps < MaxViews
  /\ updateView(acc)
  /\ steps' = steps + 1
  /\ UNCHANGED <<acc, defaultBall, ev, branch, games, tickX>>

ViewNext == Render

ViewSpec == ViewInit /\ [][ViewNext]_vars

(* ---------------- movingPaddleState applied to a paddle ---------------- *)
\* movements applied to one paddle
MaxMoves == 2
\* the paddle starts at most this far from a wall, or at the default position
NearWall == 7

\* heights a paddle has in play: shrunk twice, default, grown once
PaddleHeights ==
  {paddleYWidth - 2 * paddleShrinkAbility, paddleYWidth, paddleYWidth + paddleGrowthAbility}

\* velocities the paddles are moved with: the player's, the AI's, none
PaddleVelocities ==
  {-(paddleSpeed + cpuCheating), -paddleSpeed, 0, paddleSpeed, paddleSpeed + cpuCheating}

\* the player's paddle stands within the walls, near one of them or at the default
PaddleInit ==
  /\ defaultBall = ball(canvasRight \div 2, canvasBottom \div 2, ballBaseXSpeed, 0, null)
  /\ \E h \in PaddleHeights, energy \in {0, startingEnergy} :
       \E y \in (topBound..(topBound + NearWall))
                 \cup ((canvasBottom - bottomBound - h - NearWall)..(canvasBottom - bottomBound - h))
                 \cup {defaultPaddleY} :
         acc = [defaultEverythingState EXCEPT !.paddleOne = genericPaddle(y, 0, energy, h),
                                              !.playerEnergy = energy]
  /\ canvas = drawStaticObjects
  /\ tickX = acc.ball.xPos
  /\ gameSubs = 1
  /\ spaceSubs = 0
  /\ steps = 0
  /\ games = 1
  /\ ev = Movement(0)
  /\ branch = "none"

\* movingPaddleState moves the paddle with velocity vel; ev keeps the movement and
\* steps counts the movements
MovePaddle(vel) ==
  /\ steps < MaxMoves
  /\ acc' = [acc EXCEPT !.paddleOne = movingPaddleState(acc.paddleOne, vel)]
  /\ ev' = Movement(vel)
  /\ steps' = steps + 1
  /\ UNCHANGED <<defaultBall, gameSubs, spaceSubs, branch, games, canvas, tickX>>

PaddleNext == \E vel \in PaddleVelocities : MovePaddle(vel)

PaddleSpec == PaddleInit /\ [][PaddleNext]_vars

(* ---------------- movingBallState applied to a ball ---------------- *)
\* ball steps applied to one ball
MaxBallSteps == 2

\* x positions of the ball: at and next to the left wall, at the player's paddle and
\* one step after leaving it, the centre, at the AI paddle, next to and at the right wall
BallXs ==
  { sideBound + ballRadius, sideBound + ballRadius + ballBaseXSpeed,
    playerPaddleX + paddleXWidth + ballRadius,
    playerPaddleX + paddleXWidth + ballRadius + ballBaseXSpeed,
    canvasRight \div 2,
    aiPaddleX - ballRadius,
    canvasRight - sideBound - ballRadius - ballBaseXSpeed,
    canvasRight - sideBound - ballRadius }

\* y positions of the ball: touching the top wall, one pixel off it, the centre, one
\* pixel off the bottom wall, touching it
BallYs ==
  { topBound + ballRadius - 1, topBound + ballRadius, topBound + ballRadius + 1,
    canvasBottom \div 2,
    canvasBottom - bottomBound - ballRadius - 1, canvasBottom - bottomBound - ballRadius,
    canvasBottom - bottomBound - ballRadius + 1 }

\* balls of a game in play.  Left of the player's paddle the ball moves left, right of
\* the AI paddle it moves right; a ball that touches the top wall does not move down
\* (a paddle sends the ball down or level, and the ball leaves the top wall by the
\* reflection, which takes it off the wall)
BallInputs ==
  { b \in { ball(x, y, xVel, yVel, null)
             : x \in BallXs, y \in BallYs,
               xVel \in {-ballBaseXSpeed, ballBaseXSpeed}, yVel \in {-2, 0, 1} } :
      /\ b.xPos < playerPaddleX + paddleXWidth + ballRadius => b.xVel < 0
      /\ b.xPos > aiPaddleX - ballRadius => b.xVel > 0
      /\ b.yPos - ballRadius <= topBound => b.yVel <= 0 }

\* the paddles at the default position, or the player's resting on the floor and the
\* AI's on the top wall
BallInit ==
  /\ defaultBall = ball(canvasRight \div 2, canvasBottom \div 2, ballBaseXSpeed, 0, null)
  /\ \E b \in BallInputs :
       \/ acc = [defaultEverythingState EXCEPT !.ball = b]
       \/ acc = [defaultEverythingState EXCEPT
                   !.ball = b,
                   !.paddleOne = genericPaddle(canvasBottom - bottomBound - paddleYWidth, 0,
                                               startingEnergy, paddleYWidth),
                   !.paddleTwo = genericPaddle(topBound, 0, startingEnergy, paddleYWidth)]
  /\ canvas = drawStaticObjects
  /\ tickX = acc.ball.xPos
  /\ gameSubs = 1
  /\ spaceSubs = 0
  /\ steps = 0
  /\ games = 1
  /\ ev = Event("tick", "none")
  /\ branch = "none"

\* movingBallState moves the ball past the two paddles; steps counts the ball steps
BallStep ==
  /\ steps < MaxBallSteps
  /\ \E b \in movingBallState(acc.ball, acc.paddleOne, acc.paddleTwo) :
       acc' = [acc EXCEPT !.ball = b]
  /\ steps' = steps + 1
  /\ UNCHANGED <<defaultBall, gameSubs, spaceSubs, ev, branch, games, canvas, tickX>>

BallNext == BallStep

BallSpec == BallInit /\ [][BallNext]_vars

(* ======================= Properties ======================= *)
\* the transition is one step of the reducer
Stepped == steps' = steps + 1

KeyDown(k) == Event("keydown", k)

paddleFloor(p) == canvasBottom - bottomBound - p.ySize

WithinWalls(p) == topBound <= p.yPos /\ p.yPos <= paddleFloor(p)

\* C1: in every State both paddles satisfy topBound <= yPos <= canvasBottom - bottomBound - ySize.
\* Stated as the claim states it; Grow and Teleport break it for the player's paddle.
C1_PaddlesWithinWalls ==
  WithinWalls(acc.paddleOne) /\ WithinWalls(acc.paddleTwo)

\* what C1 leaves true: the AI paddle, which only moves and is shrunk, stays within
\* the walls (not a claim's formula; recorded with the failing case)
C1_AiPaddleWithinWalls == WithinWalls(acc.paddleTwo)

AbilityAtZero ==
  /\ Stepped
  /\ ev'.kind = "keydown" /\ ev'.key \in AbilityKeys
  /\ acc.playerEnergy = 0

EnergyNonNegative == acc.playerEnergy >= 0 /\ acc.paddleOne.energy >= 0

PlainlyMoved(p, q) ==
  /\ q.ySize = p.ySize
  /\ q.yPos \in {p.yPos, p.yPos + p.yVel, topBound, paddleFloor(p)}

DefaultPaddleWith(energy) == genericPaddle(defaultPaddleY, 0, energy, paddleYWidth)

AtCentre(b) == b.xPos = canvasRight \div 2 /\ b.yPos = canvasBottom \div 2

C4_AsClaimed ==
  [][Stepped =>
       /\ branch' = "playerScored" => acc'.ball.xVel > 0
       /\ branch' = "cpuScored" => acc'.ball.xVel < 0]_vars

\* C4 (amended): after a goal the reset ball moves toward the side that scored: after
\* the player's goal toward the player (x velocity -ballBaseXSpeed), after the cpu's
\* goal toward the cpu (x velocity +ballBaseXSpeed).
C4_ResetBallMovesToScorer ==
  [][Stepped =>
       /\ branch' = "playerScored" => acc'.ball.xVel = -ballBaseXSpeed
       /\ branch' = "cpuScored" => acc'.ball.xVel = ballBaseXSpeed]_vars

\* C4 witness: the ball reset after a goal of the player moves left
C4_Witness ==
  branch = "playerScored" /\ acc.ball.xVel < 0 /\ AtCentre(acc.ball)

C6_WinIsTerminal ==
  [][acc.winnerIs # null =>
       \/ acc' = acc
       \/ /\ ev' = KeyDown("Space") /\ games' = games + 1
          /\ acc'.winnerIs = null]_vars

\* C6 witness: a key was released after the cpu won and the State kept its winner
C6_Witness ==
  acc.winnerIs = "c" /\ ev = Event("keyup", "KeyW") /\ gameSubs = 0

\* C7: the win arm, taken when a score is at the winning threshold, produces a State
\* with that side as winner, the ball still at the canvas centre, both scores and the
\* player's energy unchanged; a tick finding the player's (cpu's) score at the
\* threshold and no marker on the ball takes it.
C7_WinBranch ==
  [][Stepped =>
       /\ branch' = "playerWon" =>
            acc.scoreOne.numeric = winningScore /\ acc'.winnerIs = "p"
       /\ branch' = "cpuWon" =>
            acc.scoreTwo.numeric = winningScore /\ acc'.winnerIs = "c"
       /\ branch' \in {"playerWon", "cpuWon"} =>
            /\ AtCentre(acc'.ball) /\ acc'.ball.xVel = 0 /\ acc'.ball.yVel = 0
            /\ acc'.scoreOne = acc.scoreOne /\ acc'.scoreTwo = acc.scoreTwo
            /\ acc'.playerEnergy = acc.playerEnergy
            /\ acc'.paddleOne.energy = acc.paddleOne.energy
       /\ (ev'.kind = "tick" /\ acc.ball.scoreUpdate = null) =>
            /\ acc.scoreOne.numeric = winningScore => acc'.winnerIs = "p"
            /\ (acc.scoreTwo.numeric = winningScore
                  /\ acc.scoreOne.numeric # winningScore) => acc'.winnerIs = "c"]_vars

\* C7 witness: the player won with 7 points
C7_Witness ==
  /\ branch = "playerWon" /\ acc.winnerIs = "p"
  /\ acc.scoreOne.numeric = winningScore /\ gameSubs = 0

\* C8: the Space key-down after a win starts a game whose scan is seeded with the
\* default State: scores 0, energy startingEnergy, both paddles at the default
\* position and height with velocity 0, the ball at the centre, no winner.
C8_RestartFromDefault ==
  [][(acc.winnerIs # null /\ games' = games + 1) =>
       /\ acc'.scoreOne = genericText(0) /\ acc'.scoreTwo = genericText(0)
       /\ acc'.playerEnergy = startingEnergy
       /\ acc'.paddleOne = DefaultPaddleWith(startingEnergy)
       /\ acc'.paddleTwo = DefaultPaddleWith(startingEnergy)
       /\ AtCentre(acc'.ball) /\ acc'.ball.scoreUpdate = null
       /\ acc'.winnerIs = null
       /\ gameSubs' = 1 /\ spaceSubs' = 0]_vars

\* C8 witness: a second game has been started by Space and is running
C8_Witness ==
  /\ games = 2 /\ ev = KeyDown("Space") /\ gameSubs = 1
  /\ acc.scoreOne.numeric = 0 /\ acc.scoreTwo.numeric = 0

\* C9: within a game each step leaves each score unchanged or adds exactly 1 to it,
\* and changes at most one of the two; only the start of a new game sets them to 0.
C9_ScoresStepByOne ==
  [][LET d1 == acc'.scoreOne.numeric - acc.scoreOne.numeric
         d2 == acc'.scoreTwo.numeric - acc.scoreTwo.numeric
     IN  IF games' = games
           THEN d1 \in {0, 1} /\ d2 \in {0, 1} /\ d1 + d2 <= 1
           ELSE acc'.scoreOne.numeric = 0 /\ acc'.scoreTwo.numeric = 0]_vars

\* C9 witness: the cpu's first goal was counted
C9_Witness ==
  branch = "cpuScored" /\ acc.scoreTwo.numeric = 1 /\ acc.scoreOne.numeric = 0

\* C10: a Grow or Teleport arriving with energy > 0 takes exactly 1 energy (display and
\* paddle) and acts in the same step: Grow adds paddleGrowthAbility to the player
\* paddle's height and leaves its position; Teleport puts the paddle's y position at
\* the ball's and leaves its height; the scores are unchanged.
C10_GrowAndTeleport ==
  [][(Stepped /\ ev'.kind = "keydown" /\ ev'.key \in {"KeyE", "KeyR"}
        /\ acc.playerEnergy > 0) =>
       /\ acc'.playerEnergy = acc.playerEnergy - 1
       /\ acc'.paddleOne.energy = acc.paddleOne.energy - 1
       /\ acc'.scoreOne = acc.scoreOne /\ acc'.scoreTwo = acc.scoreTwo
       /\ ev'.key = "KeyE" =>
            /\ acc'.paddleOne.ySize = acc.paddleOne.ySize + paddleGrowthAbility
            /\ acc'.paddleOne.yPos = acc.paddleOne.yPos
       /\ ev'.key = "KeyR" =>
            /\ acc'.paddleOne.yPos = acc.ball.yPos
            /\ acc'.paddleOne.ySize = acc.paddleOne.ySize]_vars

\* C10 witness: a Teleport took the paddle to the ball at y = 510
C10_Witness ==
  /\ ev = KeyDown("KeyR") /\ branch = "ability"
  /\ acc.paddleOne.yPos = 510 /\ acc.playerEnergy = 3

\* C11: a Shrink arriving with energy > 0 takes exactly 1 energy from the player
\* (display and paddle) and in the same step takes paddleShrinkAbility from the AI
\* paddle's height, leaving the AI paddle's energy and the player paddle's height; at
\* energy 0 the step changes neither the energy nor the AI paddle's height.
C11_Shrink ==
  [][(Stepped /\ ev' = KeyDown("KeyQ")) =>
       /\ acc'.paddleTwo.energy = acc.paddleTwo.energy
       /\ acc'.paddleOne.ySize = acc.paddleOne.ySize
       /\ IF acc.playerEnergy > 0
            THEN /\ branch' = "shrink"
                 /\ acc'.playerEnergy = acc.playerEnergy - 1
                 /\ acc'.paddleOne.energy = acc.paddleOne.energy - 1
                 /\ acc'.paddleTwo.ySize = acc.paddleTwo.ySize - paddleShrinkAbility
            ELSE /\ branch' = "shrinkNoEnergy"
                 /\ acc'.playerEnergy = acc.playerEnergy
                 /\ acc'.paddleOne.energy = acc.paddleOne.energy
                 /\ acc'.paddleTwo.ySize = acc.paddleTwo.ySize]_vars

\* C11 witness: a Shrink took the AI paddle from height 90 to 75 for 1 of 4 energy
C11_Witness ==
  /\ ev = KeyDown("KeyQ") /\ branch = "shrink"
  /\ acc.paddleTwo.ySize = 75 /\ acc.paddleTwo.energy = 4
  /\ acc.playerEnergy = 3 /\ acc.paddleOne.ySize = 90

\* the Action the claim gives for a key-down of a bound key
ClaimedAction(k) ==
  CASE k = "KeyW" -> Movement(-5)
    [] k = "KeyS" -> Movement(5)
    [] k = "KeyE" -> PaddleGrowth(30)
    [] k = "KeyR" -> Teleport
    [] k = "KeyQ" -> PaddleShrink(15)

\* C12: every host event causes at most one step of the reducer, and while a game is
\* subscribed every tick, every key-down of W, S, E, R, Q and every key-up causes
\* exactly one step, taken on the State left by the event before it, with the Action
\* of that very event: W -> Movement(-5), S -> Movement(5), E -> PaddleGrowth(30),
\* R -> Teleport, Q -> PaddleShrink(15), key-up -> Movement(0). Nothing is reordered,
\* batched, duplicated or lost.
C12_OneStepPerEventInOrder ==
  [][/\ games' = games => steps' \in {steps, steps + 1}
     /\ Stepped => ev'.kind \in {"tick", "keydown", "keyup"}
     /\ (gameSubs > 0 /\ ev'.kind = "tick") =>
          Stepped /\ acc' \in gameObserver(acc, TickValue)
     /\ (gameSubs > 0 /\ ev'.kind = "keydown" /\ ev'.key \in MoveKeys \cup AbilityKeys) =>
          Stepped /\ acc' \in gameObserver(acc, ClaimedAction(ev'.key))
     /\ (gameSubs > 0 /\ ev'.kind = "keyup") =>
          Stepped /\ acc' \in gameObserver(acc, Movement(0))]_vars

\* C12 witness: W was pressed and then released: the paddle went up one paddleSpeed
\* from 255 on the key-down and was stopped there by the key-up
C12_Witness ==
  /\ ev = Event("keyup", "KeyW") /\ steps = 2 /\ gameSubs = 1
  /\ acc.paddleOne.yPos = 250 /\ acc.paddleOne.yVel = 0

\* a key event of a key that is none of W, S, E, R, Q
OtherKeyEvent(e) ==
  e.kind \in {"keydown", "keyup"} /\ e.key \notin MoveKeys \cup AbilityKeys

\* C13 as claimed: a key-down or key-up of a key other than the five bound keys causes
\* no step of the reducer and no change of State (the Space key-down that starts a
\* game is left aside).
C13_AsClaimed ==
  [][(OtherKeyEvent(ev') /\ games' = games) => (~Stepped /\ acc' = acc)]_vars

\* C13 (amended): of the key-downs only those of W, S, E, R, Q reach the reducer; a
\* key-down of any other key causes no step and no change of State, except that a
\* Space key-down heard by a Space listener starts a game. Key-ups are not filtered by
\* key: while a game is subscribed the key-up of any key, bound or not, is one step of
\* the reducer with Movement(0). While no game is subscribed no key event is a step.
C13_OnlyKeyDownsFiltered ==
  [][/\ (ev'.kind = "keydown" /\ ev'.key \notin MoveKeys \cup AbilityKeys) =>
          \/ ~Stepped /\ acc' = acc /\ games' = games
          \/ ev'.key = "Space" /\ spaceSubs = 1 /\ games' = games + 1
     /\ (ev'.kind = "keyup" /\ gameSubs > 0) =>
          Stepped /\ acc' \in gameObserver(acc, Movement(0))
     /\ (ev'.kind \in {"keydown", "keyup"} /\ gameSubs = 0 /\ games' = games) =>
          (~Stepped /\ acc' = acc)]_vars

\* C13 witness: the key-up of a key bound to nothing was a step of the reducer: it
\* stopped the player's paddle, which was moving down at 495, and the ball moved on
C13_Witness ==
  /\ ev = Event("keyup", "KeyX") /\ steps = 1 /\ branch = "standard"
  /\ acc.paddleOne.yPos = 495 /\ acc.paddleOne.yVel = 0
  /\ acc.ball.xPos = 695

\* C14: at every moment either one Space listener is bound and no game is subscribed
\* (waiting for the start or a restart) or one game is subscribed and no Space listener
\* is bound. The listener of a wait is unsubscribed by the first Space key-down, in
\* the step that subscribes the new game; a game's subscription ends in the step that
\* views a State with a winner, which binds the one listener of the next wait. Nothing
\* else changes a subscription.
C14_OneListenerOneGame ==
  /\ [](spaceSubs \in {0, 1} /\ gameSubs \in {0, 1} /\ spaceSubs + gameSubs = 1)
  /\ [][/\ (ev' = KeyDown("Space") /\ spaceSubs = 1) =>
             (spaceSubs' = 0 /\ gameSubs' = 1 /\ games' = games + 1)
        /\ (spaceSubs' # spaceSubs \/ gameSubs' # gameSubs) =>
             \/ /\ ev' = KeyDown("Space") /\ games' = games + 1
                /\ spaceSubs = 1 /\ spaceSubs' = 0 /\ gameSubs = 0 /\ gameSubs' = 1
             \/ /\ Stepped /\ acc'.winnerIs # null
                /\ gameSubs = 1 /\ gameSubs' = 0 /\ spaceSubs = 0 /\ spaceSubs' = 1
        /\ (Stepped /\ acc'.winnerIs # null) => (gameSubs' = 0 /\ spaceSubs' = 1)]_vars

\* C14 witness: after a win and a restart the second game is running and took a tick:
\* one game subscribed, no Space listener left
C14_Witness ==
  /\ games = 2 /\ steps = 1 /\ ev = Event("tick", "none")
  /\ gameSubs = 1 /\ spaceSubs = 0

\* what an invocation of updateView leaves: the elements of the canvas and the
\* subscriptions
Observable == <<canvas, gameSubs, spaceSubs>>

\* C15: for every State, with or without a winner, a second invocation of updateView
\* with the same State leaves the elements of the canvas (ids, attributes, text) and
\* the subscriptions as the first invocation left them.
\* Stated as the claim states it; a State with a winner breaks it.
C15_RenderIdempotent ==
  [][(steps >= 1 /\ steps' = steps + 1) => Observable' = Observable]_vars

\* what C15 leaves true (not a claim's formula; recorded with the failing case): a
\* repeated invocation changes no element of the canvas and no game subscription, and
\* with a State without a winner it changes no subscription at all; with a winner it
\* binds one more Space listener each time
C15_OnlyTheRestartListenerRepeats ==
  [][(steps >= 1 /\ steps' = steps + 1) =>
       /\ canvas' = canvas
       /\ gameSubs' = gameSubs
       /\ spaceSubs' = (IF acc.winnerIs = null THEN spaceSubs ELSE spaceSubs + 1)]_vars

\* C16: a paddle within the walls (topBound <= yPos <= bottom, bottom = 590 - height)
\* moved with velocity v: if yPos + v is above the top wall and v < 0 it is put at the
\* top with velocity 0; if yPos + v is below bottom and v > 0 it is put at bottom with
\* velocity 0; a paddle on a wall moved into that wall stays there with velocity 0; in
\* every other case it is at yPos + v with velocity v. Energy and height are unchanged.
C16_PaddleMovement ==
  [][(steps' = steps + 1 /\ WithinWalls(acc.paddleOne)) =>
       LET p == acc.paddleOne
           q == acc'.paddleOne
           v == ev'.y
           top == 10
           bottom == 590 - p.ySize
           crossesTop == p.yPos + v < top /\ v < 0
           crossesBottom == p.yPos + v > bottom /\ v > 0
       IN  /\ crossesTop => (q.yPos = top /\ q.yVel = 0)
           /\ crossesBottom => (q.yPos = bottom /\ q.yVel = 0)
           /\ (p.yPos = top /\ v < 0) => (q.yPos = p.yPos /\ q.yVel = 0)
           /\ (p.yPos = bottom /\ v > 0) => (q.yPos = p.yPos /\ q.yVel = 0)
           /\ (~crossesTop /\ ~crossesBottom) => (q.yPos = p.yPos + v /\ q.yVel = v)
           /\ q.energy = p.energy /\ q.ySize = p.ySize]_vars

\* C16 witness: a paddle near the top wall was moved up twice, the second time with
\* velocity -5, and stands on the wall, stopped
C16_Witness ==
  /\ steps = 2 /\ ev = Movement(-5)
  /\ acc.paddleOne = genericPaddle(topBound, 0, startingEnergy, paddleYWidth)

\* the arms of the reducer that move the ball with movingBallState
PhysicsArms == {"standard", "ability", "shrink", "shrinkNoEnergy"}

LeftWall(b) == b.xPos - ballRadius <= sideBound

RightWall(b) == b.xPos + ballRadius >= canvasRight - sideBound

RoofOrFloor(b) ==
  \/ (b.yPos - ballRadius <= topBound /\ b.yVel < 0)
  \/ (b.yPos + ballRadius >= canvasBottom - bottomBound /\ b.yVel > 0)

\* the ball's top or bottom edge lies within the paddle's vertical span
Overlaps(b, p) ==
  \/ (p.yPos <= b.yPos - ballRadius /\ b.yPos - ballRadius <= p.yPos + p.ySize)
  \/ (p.yPos <= b.yPos + ballRadius /\ b.yPos + ballRadius <= p.yPos + p.ySize)

\* the player-paddle contact rule is the one that applies to the ball of State a
PlayerContact(a) ==
  /\ ~LeftWall(a.ball) /\ ~RightWall(a.ball) /\ ~RoofOrFloor(a.ball)
  /\ playerPaddleX <= a.ball.xPos - ballRadius
  /\ a.ball.xPos - ballRadius <= playerPaddleX + paddleXWidth
  /\ Overlaps(a.ball, a.paddleOne)
  /\ a.ball.xVel < 0

\* the AI-paddle contact rule is the one that applies to the ball of State a
CpuContact(a) ==
  /\ ~LeftWall(a.ball) /\ ~RightWall(a.ball) /\ ~RoofOrFloor(a.ball)
  /\ ~PlayerContact(a)
  /\ aiPaddleX <= a.ball.xPos + ballRadius
  /\ a.ball.xPos + ballRadius <= aiPaddleX + paddleXWidth
  /\ Overlaps(a.ball, a.paddleTwo)
  /\ a.ball.xVel > 0

\* vy = ballBaseYSpeed * r + |b.yPos - (p.yPos + p.ySize/2)| / 8 for some 0 <= r < 1
BounceVelocity(p, b, vy) ==
  LET distance2 == Abs(2 * b.yPos - (2 * p.yPos + p.ySize))
  IN  distance2 <= 16 * vy /\ 16 * vy < distance2 + 16 * ballBaseYSpeed

C17_WitnessAi ==
  /\ steps = 1 /\ acc.ball.xPos = 835 /\ acc.ball.xVel = -5
  /\ acc.ball.yVel = 1 /\ acc.ball.scoreUpdate = null

\* the number of the branch the claimed chain gives State a and event e
ClaimedBranch(a, e) ==
  IF e.kind = "keydown" /\ e.key \in {"KeyE", "KeyR"} /\ a.playerEnergy > 0 THEN 1
  ELSE IF e.kind = "keydown" /\ e.key = "KeyQ" THEN 2
  ELSE IF a.ball.scoreUpdate = "p" THEN 3
  ELSE IF a.ball.scoreUpdate = "c" THEN 4
  ELSE IF a.scoreOne.numeric = winningScore \/ a.scoreTwo.numeric = winningScore THEN 5
  ELSE 6

ScoresUnchanged == acc'.scoreOne = acc.scoreOne /\ acc'.scoreTwo = acc.scoreTwo

\* C18: every step of the reducer is the step of exactly one branch, the first that
\* applies of (1) Grow or Teleport with energy > 0, (2) Shrink, (3) player-scored
\* marker, (4) cpu-scored marker, (5) a score at the winning threshold, (6) physics
\* step. Each has its own effect: 1 and 2 leave the scores and set no winner, also when
\* a marker is pending or a score is at the threshold; 3 and 4 count the goal; 5 sets
\* the winner; 6 leaves scores, energy and winner.
C18_PriorityChain ==
  [][Stepped =>
       LET n == ClaimedBranch(acc, ev')
       IN  /\ n = 1 => /\ branch' = "ability"
                       /\ acc'.playerEnergy = acc.playerEnergy - 1
                       /\ ScoresUnchanged /\ acc'.winnerIs = acc.winnerIs
                       /\ acc'.ball \in movingBallState(acc.ball, acc.paddleOne, acc.paddleTwo)
           /\ n = 2 => /\ branch' \in {"shrink", "shrinkNoEnergy"}
                       /\ ScoresUnchanged /\ acc'.winnerIs = acc.winnerIs
                       /\ acc'.ball \in movingBallState(acc.ball, acc.paddleOne, acc.paddleTwo)
           /\ n = 3 => /\ branch' = "playerScored"
                       /\ acc'.scoreOne.numeric = acc.scoreOne.numeric + 1
                       /\ acc'.scoreTwo = acc.scoreTwo /\ acc'.winnerIs = null
           /\ n = 4 => /\ branch' = "cpuScored"
                       /\ acc'.scoreTwo.numeric = acc.scoreTwo.numeric + 1
                       /\ acc'.scoreOne = acc.scoreOne /\ acc'.winnerIs = null
           /\ n = 5 => /\ branch' \in {"playerWon", "cpuWon"}
                       /\ ScoresUnchanged /\ acc'.winnerIs \in {"p", "c"}
           /\ n = 6 => /\ branch' = "standard"
                       /\ ScoresUnchanged /\ acc'.winnerIs = null
                       /\ acc'.playerEnergy = acc.playerEnergy
                       /\ acc'.ball \in movingBallState(acc.ball, acc.paddleOne, acc.paddleTwo)
           /\ acc.winnerIs = null]_vars

\* C18 witness: a Grow arrived when the player's score had reached 7 and was handled
\* by branch 1: the score is 7 and there is no winner
C18_Witness ==
  /\ ev = KeyDown("KeyE") /\ branch = "ability"
  /\ acc.scoreOne.numeric = winningScore /\ acc.winnerIs = null
  /\ acc.playerEnergy = 3

\* the same with a marker pending (recorded with C18): a Shrink was handled by
\* branch 2 while the ball carried the cpu-scored marker, which it still carries
C18_WitnessMarker ==
  /\ ev = KeyDown("KeyQ") /\ branch = "shrink" /\ steps = 2
  /\ acc.ball.scoreUpdate = "c" /\ acc.scoreTwo.numeric = 0

\* C19: in the ball step the side walls come first: a ball whose left edge is at or
\* left of sideBound (10) stays where it is with velocity (0, 0) and the cpu-scored
\* marker; otherwise a ball whose right edge is at or right of canvasRight - sideBound
\* (890) stays where it is with velocity (0, 0) and the player-scored marker; every
\* other ball leaves the step without a marker. This holds also when the roof, floor
\* or a paddle rule would apply.
C19_SideWallsFirst ==
  [][steps' = steps + 1 =>
       LET b == acc.ball
           n == acc'.ball
           leftEdge == b.xPos - 10
           rightEdge == b.xPos + 10
       IN  /\ leftEdge <= 10 => n = ball(b.xPos, b.yPos, 0, 0, "c")
           /\ (leftEdge > 10 /\ rightEdge >= 890) => n = ball(b.xPos, b.yPos, 0, 0, "p")
           /\ (leftEdge > 10 /\ rightEdge < 890) => n.scoreUpdate = null
           /\ n.scoreUpdate \in {null, "p", "c"}]_vars

\* C19 witness: a ball in the top left corner, moving up and left, has been stopped
\* with the cpu-scored marker and not reflected by the top wall
C19_Witness ==
  /\ steps = 1
  /\ acc.ball = ball(sideBound + ballRadius, topBound + ballRadius - 1, 0, 0, "c")

\* the ball touches the top wall moving up or the bottom wall moving down
TowardsWall(b) ==
  \/ (b.yPos - 10 <= 10 /\ b.yVel < 0)
  \/ (b.yPos + 10 >= 590 /\ b.yVel > 0)

\* the ball touches the top wall moving down or the bottom wall moving up
AwayFromWall(b) ==
  \/ (b.yPos - 10 <= 10 /\ b.yVel > 0)
  \/ (b.yPos + 10 >= 590 /\ b.yVel < 0)

NoSideWall(b) == b.xPos - 10 > 10 /\ b.xPos + 10 < 890

\* C20 as claimed: the reflected ball has its y velocity negated, its x velocity
\* unchanged, and stands at its position minus its velocity, in x and in y.
C20_AsClaimed ==
  [][(steps' = steps + 1 /\ NoSideWall(acc.ball) /\ TowardsWall(acc.ball)) =>
       /\ acc'.ball.yVel = -acc.ball.yVel
       /\ acc'.ball.xVel = acc.ball.xVel
       /\ acc'.ball.xPos = acc.ball.xPos - acc.ball.xVel
       /\ acc'.ball.yPos = acc.ball.yPos - acc.ball.yVel]_vars

\* C20 (amended): when the ball touches the top wall moving up or the bottom wall
\* moving down and no side-wall rule applies, the step negates the y velocity, leaves
\* the x velocity, takes the y velocity off the y position (backing off vertically) and
\* adds the x velocity to the x position (moving on horizontally); the ball has no
\* marker. A ball touching such a wall while moving away from it is not reflected: it
\* is handled by a paddle rule or moves on by its velocity.
C20_WallReflection ==
  [][(steps' = steps + 1 /\ NoSideWall(acc.ball)) =>
       LET b == acc.ball
           n == acc'.ball
       IN  /\ TowardsWall(b) =>
                n = ball(b.xPos + b.xVel, b.yPos - b.yVel, b.xVel, -b.yVel, null)
           /\ AwayFromWall(b) =>
                /\ ~(n.xVel = b.xVel /\ n.yVel = -b.yVel)
                /\ (~PlayerContact(acc) /\ ~CpuContact(acc)) =>
                     n = ball(b.xPos + b.xVel, b.yPos + b.yVel, b.xVel, b.yVel, null)]_vars

\* C20 witness: a ball moving right and down was reflected by the bottom wall at
\* y = 581, was taken to y = 580, where it touched the wall moving up, and moved on
C20_Witness ==
  /\ steps = 2
  /\ acc.ball = ball(playerPaddleX + paddleXWidth + ballRadius + 3 * ballBaseXSpeed,
                     canvasBottom - bottomBound - ballRadius - 1, ballBaseXSpeed, -1, null)

\* the step reversed the ball's x velocity: one of the two paddle rules applied
Reflected ==
  /\ Stepped /\ branch' \in PhysicsArms
  /\ acc.ball.xVel # 0 /\ acc'.ball.xVel = -acc.ball.xVel

\* C21: a step reflects the ball off the player's paddle only when the ball's centre
\* is left of the centreline (x < 450) and its x velocity is negative, and off the AI
\* paddle only when the centre is right of the centreline and its x velocity is
\* positive; nothing else reverses the x velocity.
C21_ReflectionOnOwnHalf ==
  [][Reflected =>
       \/ /\ PlayerContact(acc)
          /\ acc.ball.xPos < 450 /\ acc.ball.xVel < 0
       \/ /\ CpuContact(acc)
          /\ acc.ball.xPos > 450 /\ acc.ball.xVel > 0]_vars

\* C21 witness: the first ball of the game was reflected by the AI paddle at x = 840
\* and leaves it to the left with y velocity 2
C21_Witness ==
  /\ steps = 1 /\ branch = "standard" /\ ev = Event("tick", "none")
  /\ acc.ball.xPos = 835 /\ acc.ball.xVel = -5 /\ acc.ball.yVel = 2


(* ---------------- C22: contact with a paddle of any height ---------------- *)
\* the closed vertical spans [y - r, y + r] of the ball and [yPos, yPos + height] of
\* the paddle have a point in common
SpansOverlap(b, p) ==
  /\ b.yPos - ballRadius <= p.yPos + p.ySize
  /\ p.yPos <= b.yPos + ballRadius

\* the ball of State a is at the AI paddle's face, moving towards it, no wall rule
\* and no player rule applying
AtCpuFace(a) ==
  /\ ~LeftWall(a.ball) /\ ~RightWall(a.ball) /\ ~RoofOrFloor(a.ball)
  /\ ~PlayerContact(a)
  /\ aiPaddleX <= a.ball.xPos + ballRadius
  /\ a.ball.xPos + ballRadius <= aiPaddleX + paddleXWidth
  /\ a.ball.xPos > canvasRight \div 2
  /\ a.ball.xVel > 0

\* the same at the player's paddle
AtPlayerFace(a) ==
  /\ ~LeftWall(a.ball) /\ ~RightWall(a.ball) /\ ~RoofOrFloor(a.ball)
  /\ playerPaddleX <= a.ball.xPos - ballRadius
  /\ a.ball.xPos - ballRadius <= playerPaddleX + paddleXWidth
  /\ a.ball.xPos < canvasRight \div 2
  /\ a.ball.xVel < 0

\* C22: whenever the ball is at a paddle's face, on that paddle's half and moving
\* towards it, and the ball's vertical span overlaps the paddle's, the step detects
\* the contact and reflects the ball, whatever the paddle's height.
C22_OverlapDetected ==
  [][(Stepped /\ branch' \in PhysicsArms /\
      \/ AtCpuFace(acc) /\ SpansOverlap(acc.ball, acc.paddleTwo)
      \/ AtPlayerFace(acc) /\ SpansOverlap(acc.ball, acc.paddleOne))
       => Reflected]_vars

\* what the code guarantees: the contact is detected for every paddle at least as
\* high as the ball's diameter
C22_DetectedFromDiameterUp ==
  [][(Stepped /\ branch' \in PhysicsArms /\
      \/ /\ AtCpuFace(acc) /\ SpansOverlap(acc.ball, acc.paddleTwo)
         /\ acc.paddleTwo.ySize >= 2 * ballRadius
      \/ /\ AtPlayerFace(acc) /\ SpansOverlap(acc.ball, acc.paddleOne)
         /\ acc.paddleOne.ySize >= 2 * ballRadius)
       => Reflected]_vars

(* ---------------- C23: the AI paddle follows the ball ---------------- *)
\* the arms of the chain that build the next State with createStandardParseState
StandardParseArms == {"standard", "ability", "shrinkNoEnergy"}

\* the velocity the AI chooses for paddle p and ball b: towards the ball's y from the
\* paddle's centre yPos + height/2
AiVelocity(p, b) ==
  IF 2 * p.yPos + p.ySize < 2 * b.yPos THEN paddleSpeed + cpuCheating
  ELSE IF 2 * p.yPos + p.ySize > 2 * b.yPos THEN -(paddleSpeed + cpuCheating)
  ELSE 0

\* paddle q is paddle p moved by velocity v, or stopped at a wall when the move
\* would cross it
MovedOrClamped(p, v, q) ==
  /\ q.ySize = p.ySize /\ q.energy = p.energy
  /\ IF topBound <= p.yPos + v /\ p.yPos + v <= paddleFloor(p)
       THEN q.yPos = p.yPos + v /\ q.yVel = v
       ELSE q.yVel = 0 /\ q.yPos \in {topBound, paddleFloor(p)}

\* C23: on every step of the default physics (and of the other arms built on it) the
\* AI paddle is moved by the velocity chosen from the previous State's AI paddle and
\* ball, +7 when its centre is above the ball's y, -7 when below, 0 when level,
\* subject to clamping at the walls; the AI paddle's velocity is always -7, 0 or 7.
C23_AiFollowsBall ==
  [][Stepped =>
       /\ acc'.paddleTwo.yVel \in {-(paddleSpeed + cpuCheating), 0, paddleSpeed + cpuCheating}
       /\ branch' \in StandardParseArms =>
            MovedOrClamped(acc.paddleTwo, AiVelocity(acc.paddleTwo, acc.ball),
                           acc'.paddleTwo)]_vars

\* a default physics step has stopped the AI paddle level with the ball
C23_Witness ==
  /\ steps > 0 /\ branch = "standard"
  /\ acc.paddleTwo.yVel = 0 /\ acc.ball.scoreUpdate = null /\ acc.ball.xVel # 0
  /\ acc.paddleTwo.yPos # defaultPaddleY

\* a default physics step has clamped the AI paddle at a wall
C23_WitnessClamped ==
  /\ steps > 0 /\ branch = "standard"
  /\ acc.paddleTwo.yVel = 0 /\ acc.paddleTwo.yPos \in {topBound, paddleFloor(acc.paddleTwo)}


(* ---------------- C24: the life of a scoring marker ---------------- *)
Marked(a) == a.ball.scoreUpdate # null

ScoringArms == {"playerScored", "cpuScored"}

\* C24: whenever the ball of a State carries a scoring marker, the very next reducer
\* step, whatever its event, runs the scoring/reset logic and the State after it
\* carries no marker.
C24_MarkerSingleStep ==
  [][(Stepped /\ Marked(acc)) =>
       (branch' \in ScoringArms /\ ~Marked(acc'))]_vars

\* what the code guarantees: a step of the scoring arms consumes the marker, and a
\* marked ball is handled by another arm only for an ability (the first two arms),
\* which leaves the ball at the wall with the same marker
C24_ConsumedUnlessAbility ==
  [][(Stepped /\ Marked(acc)) =>
       \/ branch' \in ScoringArms /\ ~Marked(acc')
       \/ /\ branch' \in {"ability", "shrink", "shrinkNoEnergy"}
          /\ acc'.ball = acc.ball]_vars


(* ---------------- C25: a held movement key ---------------- *)
IsTick(e) == e.kind = "tick"

MoveKeyDown(e) == e.kind = "keydown" /\ e.key \in MoveKeys

\* the velocity of a movement key
HeldVelocity(k) == IF k = "KeyW" THEN -paddleSpeed ELSE paddleSpeed

\* y put back between the walls for a paddle p
Clamped(y, p) ==
  IF y < topBound THEN topBound
  ELSE IF y > paddleFloor(p) THEN paddleFloor(p)
  ELSE y

ResetArms == {"playerScored", "cpuScored", "playerWon", "cpuWon"}

C25_WitnessReset ==
  /\ IsTick(ev) /\ branch \in ScoringArms /\ steps >= 2
  /\ acc.paddleOne.yVel = 0


(* ---------------- C26: the ball's way between two ticks ---------------- *)
\* C26: between two consecutive ticks handled by the physics step the ball's x
\* changes by at most ballBaseXSpeed, whatever key events are delivered between them.
C26_AtMostOneStepPerTick ==
  [][(Stepped /\ IsTick(ev') /\ branch' = "standard") =>
       Abs(acc'.ball.xPos - tickX) <= ballBaseXSpeed]_vars

\* what the code guarantees: every step of the physics arms, tick or key event,
\* changes the ball's x by at most ballBaseXSpeed
C26_AtMostOneStepPerEvent ==
  [][(Stepped /\ branch' \in PhysicsArms) =>
       Abs(acc'.ball.xPos - acc.ball.xPos) <= ballBaseXSpeed]_vars

\* a key event between two ticks has moved the ball
C26_MovedByKey ==
  /\ ev.kind \in {"keydown", "keyup"} /\ branch \in PhysicsArms /\ steps > 0
  /\ Abs(acc.ball.xPos - tickX) = ballBaseXSpeed


(* ---------------- C27: what a Shrink with energy leaves alone ---------------- *)
\* no rule of the ball step applies to the ball of State a but the plain move
OpenField(a) ==
  /\ ~LeftWall(a.ball) /\ ~RightWall(a.ball) /\ ~RoofOrFloor(a.ball)
  /\ ~PlayerContact(a) /\ ~CpuContact(a)

ShrinkPaddles ==
  /\ acc'.paddleOne = [acc.paddleOne EXCEPT !.energy = @ - 1]
  /\ acc'.paddleTwo = [acc.paddleTwo EXCEPT !.ySize = @ - paddleShrinkAbility]
  /\ acc'.playerEnergy = acc.playerEnergy - 1
  /\ acc'.winnerIs = null

C28_EnergyAgrees ==
  /\ acc.playerEnergy = acc.paddleOne.energy
  /\ energyAvailable(acc) <=> acc.paddleOne.energy > 0

\* a goal of the cpu has raised the energy, an ability has then spent 1
C28_Witness ==
  /\ branch \in {"ability", "shrink"} /\ steps >= 2
  /\ acc.scoreTwo = genericText(1)
  /\ acc.playerEnergy = startingEnergy /\ acc.paddleOne.energy = startingEnergy


(* ---------------- C29: the scores and the winning threshold ---------------- *)
AtThreshold(a) ==
  a.scoreOne.numeric = winningScore \/ a.scoreTwo.numeric = winningScore

\* C29: neither score ever exceeds winningScore, and once a side has reached it no
\* further goal is counted for either side, whatever the order of ticks and keys.
C29_ScoresStopAtThreshold ==
  [][/\ acc'.scoreOne.numeric <= winningScore
     /\ acc'.scoreTwo.numeric <= winningScore
     /\ AtThreshold(acc) => ScoresUnchanged]_vars

\* what the code guarantees: with a score at the threshold, a tick or a movement
\* event that finds no marker on the ball ends the game; only ability events and
\* the marker arms come before the test of the scores
C29_PlainEventEndsGame ==
  [][(Stepped /\ AtThreshold(acc) /\ ~Marked(acc) /\ branch' \notin PhysicsArms) =>
       (branch' \in {"playerWon", "cpuWon"} /\ acc'.winnerIs # null)]_vars

\* a score stands beyond the threshold with the game still in play
C29_BeyondThreshold ==
  /\ acc.scoreTwo.numeric = winningScore + 1
  /\ acc.winnerIs = null /\ gameSubs = 1 /\ branch = "standard"

(* ---------------- C30: the end of the game under fair ticks ---------------- *)
\* goals of both sides a game of LiveSpec counts before its exploration ends
MaxLiveGoals == 9

GoalsCounted(a) == a.scoreOne.numeric + a.scoreTwo.numeric

\* the ball carries a marker whose goal lies beyond the goals explored
BeyondGoals == Marked(acc) /\ GoalsCounted(acc) >= MaxLiveGoals

\* one emission of gameObserver as in Reduce, the steps not counted: a game of
\* LiveSpec runs for as long as events arrive
Fold(s, e) ==
  /\ gameSubs > 0
  /\ branchOf(acc, s) \in {"playerScored", "cpuScored"} => ~BeyondGoals
  /\ \E n \in gameObserver(acc, s) : acc' = n /\ updateView(n)
  /\ branch' = branchOf(acc, s)
  /\ ev' = e
  /\ tickX' = (IF s.type = "Tick"
                     \/ branchOf(acc, s) \in {"playerScored", "cpuScored", "playerWon", "cpuWon"}
                  THEN acc'.ball.xPos ELSE tickX)
  /\ UNCHANGED <<defaultBall, steps, games>>

LiveTick == Fold(TickValue, Event("tick", "none"))

\* key-downs of Q, the key whose events are handled before the test of the scores;
\* the player of LiveSpec presses it while a score stands at the threshold
LiveShrink ==
  /\ AtThreshold(acc)
  /\ Fold(keyCheck("KeyQ"), KeyDown("KeyQ"))

\* a game in play with a score at the threshold
LiveInit == Running /\ AtThreshold(acc)

LiveNext == LiveTick \/ LiveShrink

\* interval(10) emits for as long as the game is subscribed: ticks are delivered
\* fairly, key events whenever the player causes them
LiveSpec == LiveInit /\ [][LiveNext]_vars /\ WF_vars(LiveTick)

Playing == gameSubs > 0 /\ acc.winnerIs = null

Won == acc.winnerIs # null /\ gameSubs = 0

\* C30: under fair delivery of ticks, once either score equals winningScore the game
\* eventually reaches a State with the winner set and the game stream stopped (or,
\* in this model, goes on to a goal beyond the goals explored).
C30_EventuallyWon ==
  (Playing /\ AtThreshold(acc)) ~> (Won \/ BeyondGoals)

\* the game is past the threshold: the cpu's score at 8, the game in play
C30_PastThreshold ==
  /\ Playing /\ acc.scoreTwo.numeric > winningScore
  /\ acc.ball.xVel < 0 /\ acc.ball.yVel = 0 /\ acc.ball.yPos = canvasBottom \div 2

\* what the code guarantees under fair ticks: a score does not stay at the threshold
\* for ever, the game is won or a goal takes the score past it
C30_WonOrPassed ==
  (Playing /\ AtThreshold(acc)) ~> (Won \/ (Playing /\ ~AtThreshold(acc)))


(* ---------------- C31: one marker, one goal ---------------- *)
\* the step counts the goal of the marker on the ball of acc: 1 more for the side
\* the marker names, the other score kept, the ball at the centre without a marker
GoalCounted ==
  /\ ~Marked(acc') /\ AtCentre(acc'.ball)
  /\ \/ /\ acc.ball.scoreUpdate = "p" /\ branch' = "playerScored"
        /\ acc'.scoreOne.numeric = acc.scoreOne.numeric + 1
        /\ acc'.scoreTwo = acc.scoreTwo
     \/ /\ acc.ball.scoreUpdate = "c" /\ branch' = "cpuScored"
        /\ acc'.scoreTwo.numeric = acc.scoreTwo.numeric + 1
        /\ acc'.scoreOne = acc.scoreOne

\* the step is an ability step that leaves the marked ball and the scores alone
MarkerKept ==
  /\ branch' \in {"ability", "shrink", "shrinkNoEnergy"}
  /\ acc'.ball = acc.ball
  /\ ScoresUnchanged

\* C31: no goal is lost or counted twice. A step that finds a marker on the ball
\* either is an ability step, which leaves the ball at the wall with the same marker
\* and the scores unchanged, or is the step of the scoring branch of that marker,
\* which adds exactly 1 to that side's score and puts the ball at the centre without
\* a marker; and no other step changes a score.
C31_OneMarkerOneGoal ==
  [][Stepped =>
       /\ Marked(acc) => (MarkerKept \/ GoalCounted)
       /\ ~Marked(acc) => ScoresUnchanged]_vars

\* a Shrink found the marker and left it, the next tick counted the cpu's goal
C31_Witness ==
  /\ IsTick(ev) /\ branch = "cpuScored" /\ steps = 3
  /\ acc.scoreTwo.numeric = 1 /\ acc.playerEnergy = startingEnergy
  /\ acc.paddleTwo.ySize = paddleYWidth

\* under fair ticks a marker does lead to its goal (or to a goal beyond those
\* explored): the marker is not kept for ever
C31_MarkerLeadsToGoal ==
  (Playing /\ Marked(acc)) ~> (~Marked(acc) \/ BeyondGoals)


(* ---------------- C32: the account of the player's energy ---------------- *)
\* the energy State a has consumed: what startingEnergy and the cpu's goals gave,
\* less what is left
EnergySpent(a) == startingEnergy + a.scoreTwo.numeric - a.playerEnergy

\* the arms in which a Grow, a Teleport or a Shrink consumes energy
ConsumingArms == {"ability", "shrink"}

C33_HeightsPositive ==
  /\ acc.paddleOne.ySize >= paddleYWidth
  /\ acc.paddleTwo.ySize > 0

\* what the code guarantees: the player's paddle is never lower than the default,
\* the AI paddle is never higher, and it is lowered by paddleShrinkAbility for
\* energy consumed only
C33_HeightsByEnergy ==
  /\ acc.paddleOne.ySize >= paddleYWidth
  /\ acc.paddleTwo.ySize <= paddleYWidth
  /\ acc.paddleTwo.ySize >= paddleYWidth - paddleShrinkAbility * EnergySpent(acc)

\* seven Shrinks in one rally: the AI paddle's height is below 0, the game in play
C33_NegativeHeight ==
  /\ ev = KeyDown("KeyQ") /\ branch = "shrink"
  /\ acc.paddleTwo.ySize = paddleYWidth - 7 * paddleShrinkAbility
  /\ acc.winnerIs = null


(* ---------------- C34: waiting and playing exclude each other ---------------- *)
Waiting == spaceSubs > 0

\* C34: the phases are mutually exclusive. While the program waits for the start or
\* a restart no game is subscribed: no tick is delivered, and a key event other
\* than the Space key-down that ends the wait causes no reducer step and no change
\* of State or canvas. While a game is subscribed no Space listener is bound: a
\* Space key-down starts no game and leaves the State and the subscriptions.
C34_PhasesExclusive ==
  /\ [](~(Waiting /\ gameSubs > 0) /\ (Waiting \/ gameSubs > 0))
  /\ [][/\ Waiting =>
             /\ ~IsTick(ev')
             /\ \/ ev' = KeyDown("Space") /\ games' = games + 1 /\ gameSubs' = 1
                \/ /\ ~Stepped /\ games' = games
                   /\ UNCHANGED <<acc, canvas, gameSubs, spaceSubs>>
        /\ (gameSubs > 0 /\ ev' = KeyDown("Space")) =>
             /\ ~Stepped /\ games' = games
             /\ UNCHANGED <<acc, canvas, gameSubs, spaceSubs, steps>>]_vars

\* the game is over, the program waits for the restart, and a key-down of W was
\* delivered: the State with the winner is still there
C34_Witness ==
  /\ Waiting /\ gameSubs = 0 /\ games = 1
  /\ ev = KeyDown("KeyW") /\ branch = "none"
  /\ acc.winnerIs # null

\* a Space key-down was delivered to a running game after its first step
C34_WitnessSpace ==
  /\ gameSubs = 1 /\ ~Waiting /\ steps = 1
  /\ ev = KeyDown("Space") /\ branch = "none"

====
